---- MODULE Spec2Model ----
(***************************************************************************)
(* Model of mcp_firebase_server.py: the lifespan routine that obtains the  *)
(* process-wide Firestore client `db`, and the five tools that read it.    *)
(*                                                                         *)
(* The five tools are `async def` coroutines without a single `await`:     *)
(* once dispatched on the event loop a tool runs to its `return` without   *)
(* yielding control, so each invocation is one atomic action and           *)
(* concurrently submitted invocations are serialised in some order.        *)
(*                                                                         *)
(* Text built with f-strings is modelled as the sequence of its segments   *)
(* (literal pieces and interpolated values), so "the message contains the  *)
(* identifier" is "some segment is the identifier".  Python dicts are      *)
(* functions whose domain is the set of keys.                              *)
(***************************************************************************)
EXTENDS Integers, Sequences, FiniteSets, TLC

VARIABLES
    lpc,        \* position of firebase_lifespan: unstarted, yield47, yield52, yield61, done
    serving,    \* the server body runs (the lifespan is suspended at its first yield)
    cfg,        \* what the environment answered during initialization
    db,         \* the global `db`: TRUE when it holds a client, FALSE when None
    yields,     \* how many times the lifespan routine has yielded
    firstYield, \* the yield statement that signalled readiness
    assigns,    \* how many times `db` was assigned
    initRaised, \* an exception left the routine before its first yield
    exitRaised, \* an exception left the context manager on exit
    docs,       \* the store: documents in the store's iteration order
    subcols,    \* the store: document paths <<collection, id>> that have subcollections
    seen,       \* handle values that tool invocations have read
    justAdded,  \* <<[coll, id, data]>> when the previous tool call was a successful add
    last        \* the last tool invocation: its arguments and what it returned

vars == <<lpc, serving, cfg, db, yields, firstYield, assigns, initRaised, exitRaised,
          docs, subcols, seen, justAdded, last>>

(* ------------------------------ bounds -------------------------------- *)
MaxDocs == 2

(* ------------------------------ domains ------------------------------- *)
Collections == {"users", "orders"}
FieldNames == {"id", "error"}
FieldValue == "v"
SubcollectionName == "notes"
GhostId == "ghost"
SubcolPaths == {<<"users", "d1">>}
ExcText == "network failure"
NoFault == "none"

NewDocId(n) == <<"d1", "d2", "d3", "d4">>[n]
DocIds == {NewDocId(n) : n \in 1..MaxDocs} \cup {GhostId}

DocDatas == UNION {[S -> {FieldValue}] : S \in SUBSET FieldNames}

Min(a, b) == IF a < b THEN a ELSE b

(* ------------------------- Python dict helpers ------------------------ *)
\* doc_data['id'] = doc.id
SetId(d, id) == [k \in DOMAIN d \cup {"id"} |-> IF k = "id" THEN id ELSE d[k]]

\* truthiness of a dict: `if doc_data:` is false for None and for {}
Truthy(d) == DOMAIN d # {}

Contains(msg, x) == \E i \in DOMAIN msg : msg[i] = x

(* ------------------------------ the store ----------------------------- *)
InCollection(ds, coll) == SelectSeq(ds, LAMBDA d : d.coll = coll)

Exists(ds, coll, id) == \E i \in DOMAIN ds : ds[i].coll = coll /\ ds[i].id = id

DataOf(ds, coll, id) ==
    LET i == CHOOSE j \in DOMAIN ds : ds[j].coll = coll /\ ds[j].id = id IN ds[i].data

\* db.collections(): the top-level collections that hold something
TopCollections(ds, subs) ==
    LET has(c) == (\E i \in DOMAIN ds : ds[i].coll = c) \/ (\E p \in subs : p[1] = c)
    IN  (IF has("orders") THEN <<"orders">> ELSE <<>>) \o
        (IF has("users") THEN <<"users">> ELSE <<>>)

\* doc_ref.collections(): does not fail for a document that does not exist
SubcollectionsOf(subs, coll, id) ==
    IF <<coll, id>> \in subs THEN <<SubcollectionName>> ELSE <<>>

(* ------------------------- firebase_lifespan -------------------------- *)
\* What the environment would answer to each question of the initialization.
Configs == [fileExists : BOOLEAN, certOk : BOOLEAN, appsInitialized : BOOLEAN,
            initAppOk : BOOLEAN, clientOk : BOOLEAN]

Ans(b) == IF b THEN "yes" ELSE "no"
NotAsked == "-"
Unasked == [fileExists |-> NotAsked, certOk |-> NotAsked, appsInitialized |-> NotAsked,
            initAppOk |-> NotAsked, clientOk |-> NotAsked]

\* Variant of InitFailed: an except branch that only logs; the routine ends
\* without having yielded and the context manager raises to its caller.
InitFailed_NoYield(h, asked) ==
    [pc |-> "done", db |-> h, assigned |-> 0, raised |-> TRUE, asked |-> asked]

\* Lines 48-52: the except branch logs and still yields, with `db` untouched.
InitFailed(h, asked) ==
    [pc |-> "yield52", db |-> h, assigned |-> 0, raised |-> FALSE, asked |-> asked]

\* The routine from its start to its first yield; h is `db` on entry.  `asked`
\* keeps the answers the routine did consult, in the order of lines 37-45.
firebase_lifespan(h, c) ==
    LET a1 == [Unasked EXCEPT !.fileExists = Ans(c.fileExists)]
        a2 == [a1 EXCEPT !.certOk = Ans(c.certOk)]
        a3 == [a2 EXCEPT !.appsInitialized = Ans(c.appsInitialized)]
        a4 == IF c.appsInitialized THEN a3 ELSE [a3 EXCEPT !.initAppOk = Ans(c.initAppOk)]
        a5 == [a4 EXCEPT !.clientOk = Ans(c.clientOk)]
    IN  IF ~c.fileExists
        THEN [pc |-> "yield61", db |-> h, assigned |-> 0, raised |-> FALSE, asked |-> a1]
        ELSE IF ~c.certOk THEN InitFailed(h, a2)
        ELSE IF ~c.appsInitialized /\ ~c.initAppOk THEN InitFailed(h, a4)
        ELSE IF ~c.clientOk THEN InitFailed(h, a5)
        ELSE [pc |-> "yield47", db |-> TRUE, assigned |-> 1, raised |-> FALSE, asked |-> a5]

\* The server body ended normally: the routine is resumed at its yield.
LifespanResume(pc) == [pc |-> "done", yielded |-> 0, raised |-> FALSE]

\* The server body raised: the exception is thrown into the routine at its
\* yield.  At line 47 the yield is inside the try block, so `except Exception`
\* catches it and line 52 yields again; the context manager then raises
\* RuntimeError and leaves the routine suspended there.
LifespanThrow(pc, kind) ==
    IF pc = "yield47" /\ kind = "Exception"
    THEN [pc |-> "yield52", yielded |-> 1, raised |-> TRUE]
    ELSE [pc |-> "done", yielded |-> 0, raised |-> TRUE]

(* ------------------------------ messages ------------------------------ *)
NotInitializedLong ==
    <<"Firestore not initialized. Check server logs and serviceAccountKey.json.">>
NotInitializedShort == <<"Firestore not initialized. Check server logs.">>

QueryFailedMsg(coll) == <<"Failed to query collection '", coll, "': ", ExcText>>
AddFailedMsg(coll) == <<"Failed to add document to '", coll, "': ", ExcText>>
AddedMsg(coll) == <<"Document added to '", coll, "'">>
ListFailedMsg == <<"Failed to list collections: ", ExcText>>

\* Variant of GetNotFoundMsg: the message names the document only.
GetNotFoundMsg_NoCollection(coll, id) == <<"Document '", id, "' not found.">>

\* Line 190.
GetNotFoundMsg(coll, id) == <<"Document '", id, "' not found in '", coll, "'.">>

GetFailedMsg(coll, id) ==
    <<"Failed to get document '", id, "' from '", coll, "': ", ExcText>>
SubNotFoundMsg(coll, id) == <<"Document '", id, "' not found in '", coll, "'.">>
SubFailedMsg(coll, id) == <<"Failed to list subcollections for '", id, "': ", ExcText>>
NoDataMsg == <<"Document exists but contains no data.">>
None == "None"

(* ------------------------------ the tools ----------------------------- *)
\* Each tool is an operator from the handle, the store and the arguments to
\* what the call leaves behind: its return value, the store calls it made,
\* whether a store call raised, whether an exception left the tool, and the
\* values of `db` and of the store afterwards.  Every store call sits inside
\* the tool's try block, whose `except Exception` returns a value.
Returned(h, ds, result, calls, excepted) ==
    [result |-> result, calls |-> calls, excepted |-> excepted, raised |-> FALSE,
     db |-> h, docs |-> ds]

\* Variant of QueryNotInitialized: the empty list the docstring of
\* query_firestore_collection speaks of ("an empty list if ... an error occurs").
QueryNotInitialized_EmptyList == <<>>

\* Lines 86-88: the value query_firestore_collection returns without a handle.

QueryNotInitialized == <<[error |-> NotInitializedLong]>>

\* query_firestore_collection; the stream raises once `after` documents
\* have been read when fault = "stream" and the stream gets that far.
query_firestore_collection(h, ds, coll, limit, fault, after) ==
    IF ~h
    THEN Returned(h, ds, QueryNotInitialized, <<>>, FALSE)
    ELSE LET matching == InCollection(ds, coll)
             fetched == SubSeq(matching, 1, Min(limit, Len(matching)))
             kept == SelectSeq(fetched, LAMBDA d : Truthy(d.data))
             calls == <<"collection", "limit", "stream">>
         IN  IF fault = "stream" /\ after <= Len(fetched)
             THEN Returned(h, ds, <<[error |-> QueryFailedMsg(coll)]>>, calls, TRUE)
             ELSE Returned(h, ds, [i \in 1..Len(kept) |-> SetId(kept[i].data, kept[i].id)],
                           calls, FALSE)

\* Variant of AddFailed: the except branch also resets the global (db = None).
AddFailed_DropsHandle(h, ds, coll) ==
    [result |-> [success |-> FALSE, error |-> AddFailedMsg(coll)],
     calls |-> <<"collection", "add">>, excepted |-> TRUE, raised |-> FALSE,
     db |-> FALSE, docs |-> ds]

\* Lines 128-130: add_document_to_firestore after its store call raised.
AddFailed(h, ds, coll) ==
    Returned(h, ds, [success |-> FALSE, error |-> AddFailedMsg(coll)],
             <<"collection", "add">>, TRUE)

\* add_document_to_firestore
add_document_to_firestore(h, ds, coll, data, fault) ==
    IF ~h
    THEN Returned(h, ds, [success |-> FALSE, error |-> NotInitializedLong], <<>>, FALSE)
    ELSE IF fault = "add"
    THEN AddFailed(h, ds, coll)
    ELSE LET id == NewDocId(Len(ds) + 1)
         IN  Returned(h, Append(ds, [coll |-> coll, id |-> id, data |-> data]),
                      [success |-> TRUE, id |-> id, message |-> AddedMsg(coll)],
                      <<"collection", "add">>, FALSE)

\* list_firestore_collections
list_firestore_collections(h, ds, subs, fault) ==
    IF ~h
    THEN Returned(h, ds, <<[error |-> NotInitializedShort]>>, <<>>, FALSE)
    ELSE IF fault = "collections"
    THEN Returned(h, ds, <<[error |-> ListFailedMsg]>>, <<"collections">>, TRUE)
    ELSE LET cs == TopCollections(ds, subs)
         IN  Returned(h, ds, [i \in 1..Len(cs) |-> [id |-> cs[i]]], <<"collections">>, FALSE)

\* get_firestore_document
get_firestore_document(h, ds, coll, id, fault) ==
    LET calls == <<"collection", "document", "get">>
    IN  IF ~h
        THEN Returned(h, ds, [error |-> NotInitializedShort], <<>>, FALSE)
        ELSE IF fault = "get"
        THEN Returned(h, ds, [error |-> GetFailedMsg(coll, id)], calls, TRUE)
        ELSE IF Exists(ds, coll, id)
        THEN LET doc_data == DataOf(ds, coll, id)
             IN  IF Truthy(doc_data)
                 THEN Returned(h, ds, SetId(doc_data, id), calls, FALSE)
                 ELSE Returned(h, ds, [id |-> id, data |-> None, message |-> NoDataMsg],
                               calls, FALSE)
        ELSE Returned(h, ds, [error |-> GetNotFoundMsg(coll, id)], calls, FALSE)

\* Variant of ParentMissing: the subcollections are listed without a probe.
ParentMissing_NotProbed(ds, coll, id) == FALSE

\* Lines 217-218: the existence probe of list_document_subcollections.

ParentMissing(ds, coll, id) == ~Exists(ds, coll, id)

\* list_document_subcollections
list_document_subcollections(h, ds, subs, coll, id, fault) ==
    LET probe == <<"collection", "document", "get">>
        listing == <<"collection", "document", "get", "doc.collections">>
    IN  IF ~h
        THEN Returned(h, ds, <<[error |-> NotInitializedShort]>>, <<>>, FALSE)
        ELSE IF fault = "get"
        THEN Returned(h, ds, <<[error |-> SubFailedMsg(coll, id)]>>, probe, TRUE)
        ELSE IF ParentMissing(ds, coll, id)
        THEN Returned(h, ds, <<[error |-> SubNotFoundMsg(coll, id)]>>, probe, FALSE)
        ELSE IF fault = "collections"
        THEN Returned(h, ds, <<[error |-> SubFailedMsg(coll, id)]>>, listing, TRUE)
        ELSE LET cs == SubcollectionsOf(subs, coll, id)
             IN  Returned(h, ds, [i \in 1..Len(cs) |-> [id |-> cs[i]]], listing, FALSE)

(* ------------------------------ the system ---------------------------- *)
NoCall == [op |-> "none"]

\* A return value is kept under its Python type: List[Dict] for the query and
\* the two listings, Dict for add and get.
Boxed(op, value) == IF op \in {"add", "get"} THEN [dict |-> value] ELSE [list |-> value]
Result(call) == IF call.op \in {"add", "get"} THEN call.result.dict ELSE call.result.list

Init ==
    /\ lpc = "unstarted"
    /\ serving = FALSE
    /\ cfg = Unasked
    /\ db = FALSE
    /\ yields = 0
    /\ firstYield = "none"
    /\ assigns = 0
    /\ initRaised = FALSE
    /\ exitRaised = FALSE
    /\ docs = <<>>
    /\ subcols = {}
    /\ seen = {}
    /\ justAdded = <<>>
    /\ last = NoCall

\* The transport enters the lifespan context before it serves any request.
Enter ==
    /\ lpc = "unstarted"
    /\ \E c \in Configs :
         LET out == firebase_lifespan(db, c)
         IN  /\ lpc' = out.pc
             /\ db' = out.db
             /\ cfg' = out.asked
             /\ assigns' = assigns + out.assigned
             /\ yields' = IF out.raised THEN yields ELSE yields + 1
             /\ firstYield' = IF out.raised THEN firstYield ELSE out.pc
             /\ serving' = ~out.raised
             /\ initRaised' = out.raised
    /\ UNCHANGED <<exitRaised, docs, subcols, seen, justAdded, last>>

Leave(out) ==
    /\ lpc' = out.pc
    /\ yields' = yields + out.yielded
    /\ exitRaised' = out.raised
    /\ serving' = FALSE
    /\ UNCHANGED <<cfg, db, firstYield, assigns, initRaised, docs, subcols, seen,
                   justAdded, last>>

\* Transport shutdown: the context is left normally.
Exit ==
    /\ serving
    /\ last = NoCall
    /\ Leave(LifespanResume(lpc))

\* The server body fails: the context is left with an exception.
Throw ==
    /\ serving
    /\ last = NoCall
    /\ \E kind \in {"Exception", "BaseException"} : Leave(LifespanThrow(lpc, kind))

\* What every tool invocation does to the state outside the store.  A handler
\* runs from dispatch to return without suspending, so the next handler starts
\* after this one has returned its value to the transport (Respond).
Invoke(out, call, added) ==
    /\ last = NoCall
    /\ db' = out.db
    /\ docs' = out.docs
    /\ seen' = seen \cup {db}
    /\ justAdded' = added
    /\ last' = [op |-> call.op, arg |-> call, h |-> db,
                result |-> Boxed(call.op, out.result),
                calls |-> out.calls, excepted |-> out.excepted, raised |-> out.raised]
    /\ UNCHANGED <<lpc, serving, cfg, yields, firstYield, assigns, initRaised,
                   exitRaised, subcols>>

Query ==
    /\ serving
    /\ \E coll \in Collections, limit \in 0..MaxDocs,
          fault \in {NoFault, "stream"}, after \in 0..MaxDocs :
         /\ after <= limit
         /\ fault = NoFault => after = 0
         /\ Invoke(query_firestore_collection(db, docs, coll, limit, fault, after),
                   [op |-> "query", coll |-> coll, limit |-> limit,
                    stored |-> InCollection(docs, coll)], <<>>)

Add ==
    /\ serving
    /\ Len(docs) < MaxDocs
    /\ \E coll \in Collections, data \in DocDatas, fault \in {NoFault, "add"} :
         LET out == add_document_to_firestore(db, docs, coll, data, fault)
         IN  Invoke(out, [op |-> "add", coll |-> coll, data |-> data],
                    IF out.result.success
                    THEN <<[coll |-> coll, id |-> out.result.id, data |-> data]>>
                    ELSE <<>>)

List ==
    /\ serving
    /\ \E fault \in {NoFault, "collections"} :
         Invoke(list_firestore_collections(db, docs, subcols, fault), [op |-> "list"], <<>>)

Get ==
    /\ serving
    /\ \E coll \in Collections, id \in DocIds, fault \in {NoFault, "get"} :
         Invoke(get_firestore_document(db, docs, coll, id, fault),
                [op |-> "get", coll |-> coll, id |-> id, existed |-> Exists(docs, coll, id),
                 afterAdd |-> justAdded], <<>>)

Sub ==
    /\ serving
    /\ \E coll \in Collections, id \in DocIds, fault \in {NoFault, "get", "collections"} :
         Invoke(list_document_subcollections(db, docs, subcols, coll, id, fault),
                [op |-> "sub", coll |-> coll, id |-> id, existed |-> Exists(docs, coll, id),
                 nested |-> SubcollectionsOf(subcols, coll, id)], <<>>)

\* The transport serialises the handler's return value and sends it.
Respond ==
    /\ last # NoCall
    /\ last' = NoCall
    /\ UNCHANGED <<lpc, serving, cfg, db, yields, firstYield, assigns, initRaised,
                   exitRaised, docs, subcols, seen, justAdded>>

\* Another client of the store creates a subcollection under a document path
\* (the path need not name an existing document).
ExtCreateSubcollection ==
    /\ \E p \in SubcolPaths :
         /\ p \notin subcols
         /\ subcols' = subcols \cup {p}
    /\ justAdded' = <<>>
    /\ UNCHANGED <<lpc, serving, cfg, db, yields, firstYield, assigns, initRaised,
                   exitRaised, docs, seen, last>>

Next ==
    \/ Enter
    \/ Exit
    \/ Throw
    \/ Query
    \/ Add
    \/ List
    \/ Get
    \/ Sub
    \/ Respond
    \/ ExtCreateSubcollection

Spec == Init /\ [][Next]_vars

(* ------------------------------ properties ---------------------------- *)
Called == last # NoCall

\* An error payload, for each tool's return shape.
IsErrorPayload(call) ==
    IF call.op \in {"query", "list", "sub"}
    THEN Len(Result(call)) = 1 /\ "error" \in DOMAIN Result(call)[1]
    ELSE IF call.op = "add"
    THEN "error" \in DOMAIN Result(call) /\ Result(call).success = FALSE
    ELSE "error" \in DOMAIN Result(call)

\* The message an error payload carries.
ErrorMsg(call) ==
    IF call.op \in {"query", "list", "sub"} THEN Result(call)[1].error ELSE Result(call).error

C2_FailureNamesIdentifiers ==
    (Called /\ last.h /\ last.excepted) =>
        /\ ~last.raised
        /\ IsErrorPayload(last)
        /\ last.op \in {"query", "add", "get", "sub"} => Contains(ErrorMsg(last), last.arg.coll)
        /\ last.op \in {"get", "sub"} => Contains(ErrorMsg(last), last.arg.id)

\* C3: a query with limit L on a collection of N >= L documents, whatever
\* their fields, returns L documents and the i-th carries the i-th stored id.
C3_QueryReturnsLimit ==
    (Called /\ last.op = "query" /\ last.h /\ ~last.excepted
        /\ Len(last.arg.stored) >= last.arg.limit) =>
        /\ Len(Result(last)) = last.arg.limit
        /\ \A i \in 1..last.arg.limit : Result(last)[i].id = last.arg.stored[i].id

\* C4: a get that follows a successful add of F, for the id the add returned,
\* returns the fields of F and the merged "id", and nothing else.
C4_AddGetRoundTrip ==
    (Called /\ last.op = "get" /\ last.h /\ ~last.excepted /\ last.arg.afterAdd # <<>>) =>
        LET added == last.arg.afterAdd[1]
            F == added.data
        IN  (added.coll = last.arg.coll /\ added.id = last.arg.id) =>
                /\ DOMAIN Result(last) = DOMAIN F \cup {"id"}
                /\ Result(last).id = added.id
                /\ \A k \in DOMAIN F : Result(last)[k] = F[k]

\* C5: list_document_subcollections with the handle present.  A missing parent
\* gives a one-element error sequence and the subcollections are never
\* enumerated, even when the path has some; an existing parent without
\* subcollections gives the empty sequence when no store call raises; so the
\* answers to the two cases differ.
C5_MissingParentVsNoSubcollections ==
    (Called /\ last.op = "sub" /\ last.h) =>
        /\ ~last.arg.existed =>
              /\ IsErrorPayload(last)
              /\ ~Contains(last.calls, "doc.collections")
        /\ (last.arg.existed /\ last.arg.nested = <<>> /\ ~last.excepted) => Result(last) = <<>>

C5_Witness ==
    /\ Called
    /\ last.op = "sub"
    /\ last.h
    /\ ~last.arg.existed
    /\ ~last.excepted
    /\ last.arg.nested # <<>>

\* C6: get_firestore_document with the handle present, for a document that
\* does not exist, returns an error mapping whose message holds the collection
\* name and the document id, and raises nothing.
C6_GetMissingNamesBoth ==
    (Called /\ last.op = "get" /\ last.h /\ ~last.arg.existed) =>
        /\ "error" \in DOMAIN Result(last)
        /\ Contains(Result(last).error, last.arg.coll)
        /\ Contains(Result(last).error, last.arg.id)
        /\ ~last.raised

C6_Witness ==
    /\ Called
    /\ last.op = "get"
    /\ last.h
    /\ ~last.arg.existed
    /\ ~last.excepted
    /\ Len(docs) > 0

\* C7: once entered, the lifespan has signalled readiness from exactly one of
\* its three yields: line 61 with the credential file missing, line 52 with
\* the file present and a step of the initialization failed, line 47 with all
\* of it done; the handle is present exactly in the last case, it was assigned
\* at most once, and nothing was raised to the caller.
C7_ThreeOutcomes ==
    lpc # "unstarted" =>
        /\ ~initRaised
        /\ yields >= 1
        /\ firstYield \in {"yield47", "yield52", "yield61"}
        /\ firstYield = "yield61" <=> cfg.fileExists = "no"
        /\ firstYield = "yield52" <=>
              /\ cfg.fileExists = "yes"
              /\ "no" \in {cfg.certOk, cfg.initAppOk, cfg.clientOk}
        /\ firstYield = "yield47" <=> db
        /\ db <=> /\ cfg.fileExists = "yes"
                  /\ cfg.certOk = "yes"
                  /\ cfg.initAppOk # "no"
                  /\ cfg.clientOk = "yes"
        /\ assigns = (IF db THEN 1 ELSE 0)

C7_Witness ==
    /\ firstYield = "yield52"
    /\ cfg.clientOk = "no"
    /\ ~db
    /\ Called

\* C8: the handle is assigned at most once, by the lifespan and before any
\* tool runs; no tool changes it, so every invocation read the value it still
\* has.
C8_HandleReadOnly ==
    /\ assigns <= 1
    /\ seen # {} => (lpc # "unstarted" /\ seen = {db})
    /\ Called => last.h = db

C8_Witness ==
    /\ Called
    /\ last.op = "add"
    /\ last.excepted
    /\ seen = {TRUE}
    /\ Len(docs) > 0

\* C9: a response of query or get carries an "error" field only when the
\* handle was absent, the document was not found or a store call raised; and a
\* query whose stream raised returns the error mapping alone.
C9_ErrorOnlyOnFailure ==
    /\ (Called /\ last.op = "get" /\ "error" \in DOMAIN Result(last)) =>
           (~last.h \/ ~last.arg.existed \/ last.excepted)
    /\ (Called /\ last.op = "query") =>
           /\ (\E i \in DOMAIN Result(last) : "error" \in DOMAIN Result(last)[i]) =>
                  (~last.h \/ last.excepted)
           /\ last.excepted => Result(last) = <<[error |-> QueryFailedMsg(last.arg.coll)]>>

\* C10: the lifespan routine yields once on every path: never a second time,
\* and a finished run has yielded once.
C10_YieldsOnce ==
    /\ yields <= 1
    /\ lpc = "done" => yields = 1

====
